---------------------------- MODULE Spec2Model ----------------------------
(***************************************************************************)
(* A model of the Artorize processor core: the poison-mask difference      *)
(* codec (processors/poison_mask/processor.py), the backend upload client  *)
(* (artorize_gateway/backend_upload.py), the callback client               *)
(* (artorize_gateway/callback_client.py) and the job gateway               *)
(* (artorize_gateway/app.py).                                              *)
(*                                                                         *)
(* The module holds several specifications over one set of variables.      *)
(* Each specification drives one group of variables and leaves the other   *)
(* groups at their idle values:                                            *)
(*   SpecMask      compute_mask / reconstruct_preview on sample vectors    *)
(*   SpecUpload    upload_artwork with its retry loop, and the completion  *)
(*                 payload built from its outcome                          *)
(*   SpecCallback  one call of CallbackClient.send_completion_callback or  *)
(*                 send_progress_callback, POST by POST                    *)
(*   Spec          the gateway: the submit and delete handlers and the     *)
(*                 workers of _worker_loop, interleaved at their awaits    *)
(*   SpecPipeline  one run of _apply_layers_batched, stage by stage, and   *)
(*                 GET /v1/jobs/{id}/layers/{stage} on its summary         *)
(*   SpecSac       build_sac and the mask-pair encoders of sac_encoder.py  *)
(*   SpecRng       two runs of the noise-drawing stages in one process     *)
(*   SpecWatermark the two implementations of the invisible watermark      *)
(***************************************************************************)
EXTENDS Integers, Sequences, FiniteSets, TLC

VARIABLES
    \* ---- poison mask codec (processor.py) ----
    mPc,        \* "off" | "loaded" | "masked" | "done" | "error"
    mOrig,      \* samples of the original image (row-major, uint8)
    mProc,      \* samples of the processed image
    mHi,        \* hi plane of the packed difference
    mLo,        \* lo plane of the packed difference
    mRecon,     \* samples of reconstruct_preview's result
    \* ---- backend upload (backend_upload.py, app.py 433-477) ----
    uPc,        \* "off" | "start" | "post" | "sleep" | "returned" | "raised" | "payload"
    uMax,       \* BackendUploadClient.max_retries
    uFilesOk,   \* the files and JSON documents upload_artwork requires are there
    uAttempt,   \* the loop variable attempt of _upload_with_retry
    uLog,       \* the requests made and the sleeps taken, in order
    uResult,    \* what upload_artwork returned or raised
    uPayload,   \* the completion payload built from it
    \* ---- callback client (callback_client.py) ----
    cPc,        \* "off" | "call" | "post" | "true" | "false" | "raised"
    cKind,      \* "completion" | "progress": which method is called
    cN,         \* CallbackClient.retry_attempts
    cAttempt,   \* the loop variable attempt
    cLog,       \* the outcome of every POST made, in order
    cStored,    \* calls of _store_failed_callback
    \* ---- gateway (app.py) ----
    records,    \* every JobRecord object constructed, in creation order
    jobs,       \* state.jobs: job id -> index into records, 0 when absent
    queue,      \* state.queue: the job ids put and not yet got
    unfinished, \* the queue's count of items put and not yet task_done
    nUuid,      \* how many uuid4 ids have been drawn
    inDir,      \* the job ids whose input directory exists
    outDir,     \* the job ids whose output directory exists
    deleted,    \* the job ids DELETE answered 200 for, not submitted since
    popped,     \* the records delete_job has popped from state.jobs
    wk,         \* per worker: where its _worker_loop stands
    \* ---- protection pipeline (protection_pipeline_gpu.py) ----
    pPc,        \* "off" | "open" | "stage" | "c2pa" | "final" | "returned" | "raised"
    pBuild,     \* which _apply_poison_mask_if_enabled the call sites reach
    pAvail,     \* POISON_MASK_AVAILABLE
    pFmt,       \* the format of the input image
    pCfg,       \* the ProtectionWorkflowConfig
    pSeq,       \* stage_sequence
    pIdx,       \* index of the loop over stage_sequence
    pLayers,    \* stages: the layer records emitted so far
    pOrig,      \* rgb_image, one sample of it
    pPrev,      \* previous_saved, the same sample
    pLast,      \* the same sample of the last stage loop file, as it reads
    pCause,     \* what made the run raise
    pFinal,     \* how the final-comparison mask call ended
    pMask,      \* the final-comparison mask planes
    pDisk,      \* whether the job's output tree is still on disk
    pResp,      \* the first get_layer request and its answer
    \* ---- SAC encoder (sac_encoder.py) ----
    sPc,        \* "off" | "call" | "done"
    sIn,        \* the function called and its arguments
    sOut,       \* what the calls returned or raised
    \* ---- noise generators (protection_pipeline_gpu.py) ----
    rngEnv,     \* TORCH_AVAILABLE and the image both runs are given
    rngState,   \* the state of the generator the stages draw from
    rngRuns,    \* per run: the stage it is at and its current raster
    \* ---- invisible watermark (protection_pipeline*.py) ----
    wmIn,       \* the flat raster and the UTF-8 bytes of the watermark text
    wmOut       \* the flat result of each implementation, and which ran

maskVars == <<mPc, mOrig, mProc, mHi, mLo, mRecon>>

upVars == <<uPc, uMax, uFilesOk, uAttempt, uLog, uResult, uPayload>>

cbVars == <<cPc, cKind, cN, cAttempt, cLog, cStored>>

gwVars ==
    <<records, jobs, queue, unfinished, nUuid, inDir, outDir, deleted, popped,
      wk>>

plVars == <<pPc, pBuild, pAvail, pFmt, pCfg, pSeq, pIdx, pLayers, pOrig, pPrev,
            pLast, pCause, pFinal, pMask, pDisk, pResp>>

sacVars == <<sPc, sIn, sOut>>

rngVars == <<rngEnv, rngState, rngRuns>>

wmVars == <<wmIn, wmOut>>

vars == <<maskVars, upVars, cbVars, gwVars, plVars, sacVars, rngVars, wmVars>>

\* what the actions of one group leave alone
notMaskVars ==
    <<upVars, cbVars, gwVars, plVars, sacVars, rngVars, wmVars>>

notUpVars ==
    <<maskVars, cbVars, gwVars, plVars, sacVars, rngVars, wmVars>>

notCbVars ==
    <<maskVars, upVars, gwVars, plVars, sacVars, rngVars, wmVars>>

notGwVars ==
    <<maskVars, upVars, cbVars, plVars, sacVars, rngVars, wmVars>>

notPlVars ==
    <<maskVars, upVars, cbVars, gwVars, sacVars, rngVars, wmVars>>

notSacVars ==
    <<maskVars, upVars, cbVars, gwVars, plVars, rngVars, wmVars>>

notRngVars ==
    <<maskVars, upVars, cbVars, gwVars, plVars, sacVars, wmVars>>

notWmVars ==
    <<maskVars, upVars, cbVars, gwVars, plVars, sacVars, rngVars>>

None == "None"

(***************************************************************************)
(* Integer conversions of numpy (astype wraps modulo 2^w).                 *)
(***************************************************************************)
ToUint8(x) == x % 256

ToUint16(x) == x % 65536

ToInt16(x) == ((x + 32768) % 65536) - 32768

Clip(x, lo, hi) == IF x < lo THEN lo ELSE IF x > hi THEN hi ELSE x

SeqMap(Op(_), s) == [i \in 1..Len(s) |-> Op(s[i])]

(***************************************************************************)
(* processors/poison_mask/processor.py                                     *)
(***************************************************************************)
DIFF_OFFSET == 32768

\* the largest sample of an 8-bit channel (np.uint8)
SampleMax == 255

\* _encode_difference raises ValueError when a packed value leaves 0..65535
EncodeInRange(d) == d + DIFF_OFFSET >= 0 /\ d + DIFF_OFFSET <= 65535

\* a plausible slip: the lo plane masked with 0x7F instead of 0xFF
EncodeDifferenceNarrowLo(d) ==
    LET encoded == ToUint16(d + DIFF_OFFSET)
    IN  [hi |-> ToUint8(encoded \div 256), lo |-> ToUint8(encoded % 128)]

\* _encode_difference, per sample: encoded = diff + DIFF_OFFSET as uint16,
\* hi = encoded >> 8, lo = encoded & 0xFF, both as uint8
EncodeDifference(d) ==
    LET encoded == ToUint16(d + DIFF_OFFSET)
    IN  [hi |-> ToUint8(encoded \div 256), lo |-> ToUint8(encoded % 256)]

\* _decode_difference, per sample: ((hi << 8) | lo) in uint16, minus
\* DIFF_OFFSET in int32, narrowed to int16.  hi << 8 has its low eight bits
\* clear and lo < 256, so the bitwise or is a sum.
DecodeDifference(hi, lo) ==
    LET encoded == ToUint16(ToUint16(hi * 256) + lo)
    IN  ToInt16(encoded - DIFF_OFFSET)

\* compute_mask: diff = original(int16) - processed(int16), then the planes
ComputeMask(original, processed) ==
    LET diff == [i \in 1..Len(original) |-> ToInt16(original[i] - processed[i])]
    IN  [hi |-> [i \in 1..Len(diff) |-> EncodeDifference(diff[i]).hi],
         lo |-> [i \in 1..Len(diff) |-> EncodeDifference(diff[i]).lo]]

\* reconstruct_preview: clip(processed + decode(hi, lo), 0, 255) as uint8
ReconstructPreview(processed, hi, lo) ==
    [i \in 1..Len(processed) |->
        ToUint8(Clip(processed[i] + DecodeDifference(hi[i], lo[i]), 0, 255))]

(***************************************************************************)
(* artorize_gateway/backend_upload.py                                      *)
(***************************************************************************)
\* BackendUploadClient.retry_delay, in seconds
RetryDelay == 2

\* What one POST {backend_url}/artworks can come to:
\*   "201id"    status 201, a JSON body with an id
\*   "201noid"  status 201, a JSON body without an id
\*   "201bad"   status 201, a body response.json() cannot parse
\*   "401" "429" the two statuses the loop singles out
\*   "500"      any other status
\*   "timeout"  httpx.TimeoutException, "network" httpx.NetworkError,
\*   "other"    any other exception of the request
BackendResponses ==
    {"201id", "201noid", "201bad", "401", "429", "500", "timeout", "network", "other"}

\* a plausible slip: the same delay before every retry
BackoffWaitFixed(attempt) == RetryDelay

\* wait_time = self.retry_delay * (2 ** attempt)
BackoffWait(attempt) == RetryDelay * (2 ^ attempt)

Return(body) == [kind |-> "return", body |-> body, exc |-> None]

Raise(exc) == [kind |-> "raise", body |-> None, exc |-> exc]

SleepThenContinue == [kind |-> "sleep", body |-> None, exc |-> None]

\* a plausible slip: 401 handled like 429
UploadStepRetry401(attempt, maxRetries, r) ==
    CASE r = "201id" -> Return("id")
      [] r = "201noid" -> Return("noid")
      [] r = "201bad" -> Raise("BackendUploadError")
      [] r \in {"401", "429"} ->
            IF attempt < maxRetries - 1 THEN SleepThenContinue
            ELSE Raise("BackendRateLimitError")
      [] r = "500" -> Raise("BackendUploadError")
      [] r = "timeout" ->
            IF attempt < maxRetries - 1 THEN SleepThenContinue
            ELSE Raise("BackendTimeoutError")
      [] r = "network" ->
            IF attempt < maxRetries - 1 THEN SleepThenContinue
            ELSE Raise("BackendUploadError")
      [] OTHER -> Raise("BackendUploadError")

\* a plausible slip: a 5xx answer retried like a rate limit
UploadStepRetry500(attempt, maxRetries, r) ==
    CASE r = "201id" -> Return("id")
      [] r = "201noid" -> Return("noid")
      [] r = "201bad" -> Raise("BackendUploadError")
      [] r = "401" -> Raise("BackendAuthError")
      [] r = "429" ->
            IF attempt < maxRetries - 1 THEN SleepThenContinue
            ELSE Raise("BackendRateLimitError")
      [] r = "500" ->
            IF attempt < maxRetries - 1 THEN SleepThenContinue
            ELSE Raise("BackendUploadError")
      [] r = "timeout" ->
            IF attempt < maxRetries - 1 THEN SleepThenContinue
            ELSE Raise("BackendTimeoutError")
      [] r = "network" ->
            IF attempt < maxRetries - 1 THEN SleepThenContinue
            ELSE Raise("BackendUploadError")
      [] OTHER -> Raise("BackendUploadError")

\* one iteration of the loop of _upload_with_retry, given the outcome r of
\* its request: return the parsed body, raise, or sleep and continue
UploadStep(attempt, maxRetries, r) ==
    CASE r = "201id" -> Return("id")
      [] r = "201noid" -> Return("noid")
      [] r = "201bad" -> Raise("BackendUploadError")
      [] r = "401" -> Raise("BackendAuthError")
      [] r = "429" ->
            IF attempt < maxRetries - 1 THEN SleepThenContinue
            ELSE Raise("BackendRateLimitError")
      [] r = "500" -> Raise("BackendUploadError")
      [] r = "timeout" ->
            IF attempt < maxRetries - 1 THEN SleepThenContinue
            ELSE Raise("BackendTimeoutError")
      [] r = "network" ->
            IF attempt < maxRetries - 1 THEN SleepThenContinue
            ELSE Raise("BackendUploadError")
      [] OTHER -> Raise("BackendUploadError")

\* the completion payload of the backend branch of
\* _send_callback_on_completion: the id of the response, or the except
\* clause the exception reaches
Payload(status, code) == [status |-> status, code |-> code]

BackendPayload(res) ==
    IF res.kind = "return"
    THEN IF res.body = "id" THEN Payload("completed", None)
         ELSE Payload("failed", "BACKEND_UPLOAD_FAILED")
    ELSE IF res.exc = "BackendAuthError"
         THEN Payload("failed", "BACKEND_AUTH_FAILED")
         ELSE Payload("failed", "BACKEND_UPLOAD_FAILED")

(***************************************************************************)
(* SpecUpload: one call of upload_artwork, request by request.             *)
(***************************************************************************)
\* largest max_retries the upload specification configures
MaxRetriesCfg == 3

Post(r) == [ev |-> "post", resp |-> r, wait |-> 0]

Sleep(w) == [ev |-> "sleep", resp |-> None, wait |-> w]

UploadIdle ==
    /\ uPc = "off"
    /\ uMax = 0
    /\ uFilesOk = FALSE
    /\ uAttempt = 0
    /\ uLog = <<>>
    /\ uResult = None
    /\ uPayload = None

UploadInit ==
    /\ uPc = "start"
    /\ uMax \in 0..MaxRetriesCfg
    /\ uFilesOk \in BOOLEAN
    /\ uAttempt = 0
    /\ uLog = <<>>
    /\ uResult = None
    /\ uPayload = None

\* upload_artwork up to the first request: the required files are checked,
\* then the loop is entered (range(0) runs no iteration and falls to the
\* raise after the loop)
UploadArtwork ==
    /\ uPc = "start"
    /\ IF ~uFilesOk \/ uMax <= 0
       THEN /\ uResult' = Raise("BackendUploadError")
            /\ uPc' = "raised"
       ELSE /\ uPc' = "post"
            /\ UNCHANGED uResult
    /\ UNCHANGED <<uMax, uFilesOk, uAttempt, uLog, uPayload>>
    /\ UNCHANGED notUpVars

\* client.post(...) completes with r and the loop body handles it
UploadPost ==
    /\ uPc = "post"
    /\ uAttempt < uMax
    /\ \E r \in BackendResponses :
          LET step == UploadStep(uAttempt, uMax, r)
          IN  /\ uLog' = Append(uLog, Post(r))
              /\ IF step.kind = "sleep"
                 THEN uPc' = "sleep" /\ UNCHANGED uResult
                 ELSE /\ uResult' = step
                      /\ uPc' = IF step.kind = "return" THEN "returned" ELSE "raised"
    /\ UNCHANGED <<uMax, uFilesOk, uAttempt, uPayload>>
    /\ UNCHANGED notUpVars

\* await asyncio.sleep(wait_time); continue: the next iteration, if any
UploadSleep ==
    /\ uPc = "sleep"
    /\ uLog' = Append(uLog, Sleep(BackoffWait(uAttempt)))
    /\ uAttempt' = uAttempt + 1
    /\ IF uAttempt + 1 < uMax
       THEN uPc' = "post" /\ UNCHANGED uResult
       ELSE \* the loop is over: the raise after it
            uPc' = "raised" /\ uResult' = Raise("BackendUploadError")
    /\ UNCHANGED <<uMax, uFilesOk, uPayload>>
    /\ UNCHANGED notUpVars

\* _send_callback_on_completion builds the payload
UploadPayload ==
    /\ uPc \in {"returned", "raised"}
    /\ uPayload' = BackendPayload(uResult)
    /\ uPc' = "payload"
    /\ UNCHANGED <<uMax, uFilesOk, uAttempt, uLog, uResult>>
    /\ UNCHANGED notUpVars

UploadNext == UploadArtwork \/ UploadPost \/ UploadSleep \/ UploadPayload

(***************************************************************************)
(* artorize_gateway/callback_client.py                                     *)
(***************************************************************************)
\* What one POST to the callback URL can come to: status 200, status 401,
\* any other status ("500"), or an exception of the request:
\* "timeout" (httpx.TimeoutException), "network" (httpx.NetworkError),
\* "other" (anything else)
CallbackResponses == {"200", "401", "500", "timeout", "network", "other"}

CallbackExceptions == {"timeout", "network", "other"}

\* a plausible slip: the first non-200 answer ends the loop
CallbackStepGiveUp(kind, r) ==
    CASE r = "200" -> "true"
      [] r \in CallbackExceptions -> "raise"
      [] OTHER -> "false"

\* One iteration of the loop of send_completion_callback (kind
\* "completion") or send_progress_callback (kind "progress"), given the
\* outcome r of its POST:
\*   "true"   return True (status 200)
\*   "next"   the warning is logged and the loop goes on (any other status)
\*   "raise"  the request raised.  The first except clause names
\*            httpx.TimeoutError, which httpx does not define (its class is
\*            TimeoutException, as backend_upload.py has it): matching the
\*            exception evaluates the clause, the attribute lookup raises
\*            AttributeError, and that leaves the method.  No later clause, no
\*            sleep and no _store_failed_callback is reached.
CallbackStep(kind, r) ==
    CASE r = "200" -> "true"
      [] r \in CallbackExceptions -> "raise"
      [] OTHER -> "next"

(***************************************************************************)
(* SpecCallback: one callback call, POST by POST.                          *)
(***************************************************************************)
\* largest retry_attempts the callback specification configures
MaxAttemptsCfg == 3

CallbackIdle ==
    /\ cPc = "off"
    /\ cKind = None
    /\ cN = 0
    /\ cAttempt = 0
    /\ cLog = <<>>
    /\ cStored = 0

CallbackInit ==
    /\ cPc = "call"
    /\ cKind \in {"completion", "progress"}
    /\ cN \in 0..MaxAttemptsCfg
    /\ cAttempt = 0
    /\ cLog = <<>>
    /\ cStored = 0

\* the method is entered; range(0) runs no iteration: return False
CallbackCall ==
    /\ cPc = "call"
    /\ cPc' = IF cN <= 0 THEN "false" ELSE "post"
    /\ UNCHANGED <<cKind, cN, cAttempt, cLog, cStored>>
    /\ UNCHANGED notCbVars

\* client.post(...) completes with r and the loop body handles it
CallbackPost ==
    /\ cPc = "post"
    /\ cAttempt < cN
    /\ \E r \in CallbackResponses :
          LET step == CallbackStep(cKind, r)
          IN  /\ cLog' = Append(cLog, r)
              /\ cAttempt' = IF step = "next" THEN cAttempt + 1 ELSE cAttempt
              /\ cPc' = CASE step = "true" -> "true"
                          [] step = "raise" -> "raised"
                          [] step = "false" -> "false"
                          [] OTHER ->
                               IF cAttempt + 1 < cN THEN "post" ELSE "false"
    /\ UNCHANGED <<cKind, cN, cStored>>
    /\ UNCHANGED notCbVars

CallbackNext == CallbackCall \/ CallbackPost

(***************************************************************************)
(* artorize_gateway/app.py                                                 *)
(***************************************************************************)
STATUS_QUEUED == "queued"

STATUS_RUNNING == "running"

STATUS_DONE == "done"

STATUS_ERROR == "error"

\* GatewayConfig.callback_retry_attempts
CallbackRetryAttempts == 3

\* GatewayConfig.backend_upload_max_retries
BackendUploadMaxRetries == 3

\* JobRecord(...): cb says that callback_url and callback_auth_token are
\* both non-empty, backend that backend_url is
NewJobRecord(job_id, cb, backend) ==
    [job_id |-> job_id, status |-> STATUS_QUEUED, error |-> None,
     result |-> None, cb |-> cb, backend |-> backend]

\* a plausible slip: "if error:" instead of "if error is not None:"
TouchTruthyError(job, status, error) ==
    [job EXCEPT !.status = IF status # None THEN status ELSE @,
                !.error = IF error # None /\ error # "" THEN error ELSE @]

\* JobRecord.touch
Touch(job, status, error) ==
    [job EXCEPT !.status = IF status # None THEN status ELSE @,
                !.error = IF error # None THEN error ELSE @]

\* a plausible slip: the third checkpoint reports step 2 again
StepNumberRepeated(checkpoint) ==
    CASE checkpoint = "metadata" -> 1
      [] checkpoint = "protection" -> 2
      [] checkpoint = "upload" -> 2

\* the step_number _worker_loop passes at each of its three checkpoints
StepNumber(checkpoint) ==
    CASE checkpoint = "metadata" -> 1
      [] checkpoint = "protection" -> 2
      [] checkpoint = "upload" -> 3

\* _send_progress_callback and _send_callback_on_completion return at once
\* unless the job has a callback URL and token
HasCallback(job) == job.cb

\* str(exc) of what _process_job can raise: some message, or none at all
ExcMessages == {"msg", ""}

\* A whole callback call: the loop of CallbackStep over the answers resps.
\* "true" and "false" are its return values, "raised" an exception.
RECURSIVE CallbackRun(_, _, _, _)
CallbackRun(kind, attempt, n, resps) ==
    IF attempt >= n THEN "false"
    ELSE LET step == CallbackStep(kind, resps[attempt + 1])
         IN  CASE step = "true" -> "true"
               [] step = "raise" -> "raised"
               [] step = "false" -> "false"
               [] OTHER -> CallbackRun(kind, attempt + 1, n, resps)

\* what a callback call of the gateway's client can come to
CallbackOutcomes(kind) ==
    {CallbackRun(kind, 0, CallbackRetryAttempts, rs) :
        rs \in [1..CallbackRetryAttempts -> CallbackResponses]}

\* what a progress callback and a completion callback can come to
ProgressOutcomes == CallbackOutcomes("progress")

CompletionOutcomes == CallbackOutcomes("completion")

\* A whole upload_artwork call once its files are validated: the loop of
\* UploadStep over the answers resps.
RECURSIVE UploadRun(_, _, _)
UploadRun(attempt, maxRetries, resps) ==
    IF attempt >= maxRetries THEN Raise("BackendUploadError")
    ELSE LET step == UploadStep(attempt, maxRetries, resps[attempt + 1])
         IN  IF step.kind = "sleep"
             THEN UploadRun(attempt + 1, maxRetries, resps)
             ELSE step

\* What the backend branch of _send_callback_on_completion can come to: the
\* outcome of upload_artwork, or an error before it (no layer to upload, a
\* file missing).
BackendOutcomes ==
    {UploadRun(0, BackendUploadMaxRetries, rs) :
        rs \in [1..BackendUploadMaxRetries -> BackendResponses]}
    \cup {Raise("BackendUploadError"), Raise("RuntimeError")}

\* The branch _send_callback_on_completion takes for a job with a callback.
\* "if error:" is false for an empty message as it is for None.
CompletionBranch(job, result, error) ==
    IF error # None /\ error # "" THEN "error"
    ELSE IF result # None /\ job.backend THEN "backend"
    ELSE IF result # None THEN "storage"
    ELSE "unknown"

NoPayload == Payload(None, None)

\* The payloads built without an upload.  The storage branch passes
\* sac_path= to StorageUploader.upload_protected_image, which takes no such
\* argument: the call raises TypeError and the payload is
\* STORAGE_UPLOAD_FAILED.
DirectPayload(branch) ==
    CASE branch = "error" -> Payload("failed", "PROCESSING_FAILED")
      [] branch = "storage" -> Payload("failed", "STORAGE_UPLOAD_FAILED")
      [] branch = "unknown" -> Payload("failed", "UNKNOWN_ERROR")

(***************************************************************************)
(* Spec: the gateway.  The handlers and the workers run on one event loop, *)
(* so each action is the code between two awaits; _process_job runs in a   *)
(* thread of its own (asyncio.to_thread), beside the handlers.             *)
(***************************************************************************)
\* how many jobs are submitted in all
MaxSubmits == 2

\* the tasks lifespan starts: max(1, worker_concurrency) of them
Workers == {"w1", "w2"}

\* the job ids a client sends in the metadata of POST /v1/process/artwork
ClientIds == {"a"}

\* the values of uuid.uuid4().hex, in the order they are drawn
Uuids == <<"u1", "u2", "u3", "u4">>

JobIds == ClientIds \cup {Uuids[i] : i \in 1..Len(Uuids)}

\* A worker waiting on the queue.  Of its pass: job is the record it holds,
\* prog the step numbers of the progress callbacks it called, ran whether
\* _process_job was invoked and how it ended ("no", "invoked", "returned",
\* "raised"), payload the completion payload and sent how many times
\* send_completion_callback was called.
IdleWorker ==
    [pc |-> "idle", job |-> 0, prog |-> <<>>, ran |-> "no",
     payload |-> NoPayload, sent |-> 0]

GatewayIdle ==
    /\ records = <<>>
    /\ jobs = [id \in JobIds |-> 0]
    /\ queue = <<>>
    /\ unfinished = 0
    /\ nUuid = 0
    /\ inDir = {}
    /\ outDir = {}
    /\ deleted = {}
    /\ popped = {}
    /\ wk = [w \in Workers |-> IdleWorker]

\* create_app and lifespan: no job, an empty queue, every worker waiting
GatewayInit == GatewayIdle

\* a plausible slip: the id is put at the front of the queue
EnqueueAtFront(job_id, record) ==
    /\ Len(records) < MaxSubmits
    /\ records' = Append(records, record)
    /\ jobs' = [jobs EXCEPT ![job_id] = Len(records) + 1]
    /\ queue' = <<job_id>> \o queue
    /\ unfinished' = unfinished + 1
    /\ inDir' = inDir \cup {job_id}
    /\ deleted' = deleted \ {job_id}
    /\ UNCHANGED <<outDir, popped, wk>>

\* The tail of the three submit handlers: the input directory is made and
\* the upload written, the record is stored under job_id whether or not the
\* id has one already, and the id is put on the queue.
Enqueue(job_id, record) ==
    /\ Len(records) < MaxSubmits
    /\ records' = Append(records, record)
    /\ jobs' = [jobs EXCEPT ![job_id] = Len(records) + 1]
    /\ queue' = Append(queue, job_id)
    /\ unfinished' = unfinished + 1
    /\ inDir' = inDir \cup {job_id}
    /\ deleted' = deleted \ {job_id}
    /\ UNCHANGED <<outDir, popped, wk>>

\* POST /v1/jobs, multipart or JSON: the id is a fresh uuid, no callback
SubmitJob ==
    /\ nUuid < Len(Uuids)
    /\ Enqueue(Uuids[nUuid + 1], NewJobRecord(Uuids[nUuid + 1], FALSE, FALSE))
    /\ nUuid' = nUuid + 1
    /\ UNCHANGED notGwVars

\* POST /v1/process/artwork: the id is the metadata's job_id
ProcessArtwork ==
    /\ \E job_id \in ClientIds, backend \in BOOLEAN :
          Enqueue(job_id, NewJobRecord(job_id, TRUE, backend))
    /\ UNCHANGED nUuid
    /\ UNCHANGED notGwVars

\* DELETE /v1/jobs/{job_id} of a known id: the record is popped and both
\* directories are removed (an unknown id is a 404 and changes nothing)
DeleteJob ==
    /\ \E job_id \in JobIds :
          /\ jobs[job_id] # 0
          /\ jobs' = [jobs EXCEPT ![job_id] = 0]
          /\ inDir' = inDir \ {job_id}
          /\ outDir' = outDir \ {job_id}
          /\ deleted' = deleted \cup {job_id}
          /\ popped' = popped \cup {jobs[job_id]}
    /\ UNCHANGED <<records, queue, unfinished, nUuid, wk>>
    /\ UNCHANGED notGwVars

\* _send_progress_callback is called for a checkpoint of a job with a
\* callback: the step is on its way
EmitProgress(wr, checkpoint) ==
    [wr EXCEPT !.prog = Append(@, StepNumber(checkpoint))]

\* The end of one pass of _worker_loop once the record is touched:
\* _send_callback_on_completion, then queue.task_done().  Without a callback
\* the former returns at once and the worker waits on the queue again; with
\* one it builds the payload, after an upload in the backend branch, and
\* awaits send_completion_callback.
EndRun(w, ran, job, result, error) ==
    IF ~HasCallback(job)
    THEN /\ wk' = [wk EXCEPT ![w].pc = "idle", ![w].ran = ran]
         /\ unfinished' = unfinished - 1
    ELSE LET branch == CompletionBranch(job, result, error)
         IN  /\ wk' = IF branch = "backend"
                      THEN [wk EXCEPT ![w].pc = "upload", ![w].ran = ran]
                      ELSE [wk EXCEPT ![w].pc = "completion",
                                      ![w].ran = ran,
                                      ![w].payload = DirectPayload(branch),
                                      ![w].sent = @ + 1]
             /\ UNCHANGED unfinished

\* a plausible slip: the except arm reports the failure and leaves the
\* record's status as it is
FailUntouched(w, ran, message) ==
    LET r == wk[w].job
        job == records[r]
    IN  /\ records' = [records EXCEPT ![r] = job]
        /\ EndRun(w, ran, job, None, message)

\* except Exception as exc: touch(ERROR, str(exc)), then the completion
Fail(w, ran, message) ==
    LET r == wk[w].job
        job == Touch(records[r], STATUS_ERROR, message)
    IN  /\ records' = [records EXCEPT ![r] = job]
        /\ EndRun(w, ran, job, None, message)

\* else: job.result = result, touch(DONE), then the completion
Succeed(w) ==
    LET r == wk[w].job
        job == Touch([records[r] EXCEPT !.result = "result"], STATUS_DONE, None)
    IN  /\ records' = [records EXCEPT ![r] = job]
        /\ EndRun(w, "returned", job, "result", None)

\* queue.get() returns: an id without a record is dropped; otherwise the
\* record becomes running and checkpoint 1 is reported (a job without a
\* callback runs on to asyncio.to_thread)
Dequeue(w) ==
    /\ wk[w].pc = "idle"
    /\ queue # <<>>
    /\ queue' = Tail(queue)
    /\ LET r == jobs[Head(queue)]
       IN  IF r = 0
           THEN /\ unfinished' = unfinished - 1
                /\ UNCHANGED <<records, wk>>
           ELSE LET job == Touch(records[r], STATUS_RUNNING, None)
                    fresh == [IdleWorker EXCEPT !.job = r]
                IN  /\ records' = [records EXCEPT ![r] = job]
                    /\ wk' = [wk EXCEPT ![w] =
                                IF HasCallback(job)
                                THEN [EmitProgress(fresh, "metadata")
                                        EXCEPT !.pc = "progress1"]
                                ELSE [fresh EXCEPT !.pc = "pipeline",
                                                   !.ran = "invoked"]]
                    /\ UNCHANGED unfinished
    /\ UNCHANGED <<jobs, nUuid, inDir, outDir, deleted,
                   popped>>
    /\ UNCHANGED notGwVars

\* the callback of checkpoint 1 is over.  It is awaited outside the try: an
\* exception ends _worker_loop, task_done() is not called.
Progress1Done(w) ==
    /\ wk[w].pc = "progress1"
    /\ \E out \in ProgressOutcomes :
          wk' = [wk EXCEPT ![w] =
                    IF out = "raised" THEN [@ EXCEPT !.pc = "dead"]
                    ELSE [EmitProgress(@, "protection") EXCEPT !.pc = "progress2"]]
    /\ UNCHANGED <<records, jobs, queue, unfinished, nUuid, inDir, outDir, deleted,
                   popped>>
    /\ UNCHANGED notGwVars

\* the callback of checkpoint 2 is over: the pipeline is handed to a thread
Progress2Done(w) ==
    /\ wk[w].pc = "progress2"
    /\ \E out \in ProgressOutcomes :
          IF out = "raised" THEN Fail(w, "no", "msg")
          ELSE /\ wk' = [wk EXCEPT ![w].pc = "pipeline", ![w].ran = "invoked"]
               /\ UNCHANGED <<records, unfinished>>
    /\ UNCHANGED <<jobs, queue, nUuid, inDir, outDir, deleted,
                   popped>>
    /\ UNCHANGED notGwVars

\* _process_job starts: the output directory is made anew, then the input
\* image is opened; without it the pipeline raises
PipelineStart(w) ==
    /\ wk[w].pc = "pipeline"
    /\ LET job_id == records[wk[w].job].job_id
       IN  /\ outDir' = outDir \cup {job_id}
           /\ IF job_id \in inDir
              THEN /\ wk' = [wk EXCEPT ![w].pc = "thread"]
                   /\ UNCHANGED <<records, unfinished>>
              ELSE Fail(w, "raised", "msg")
    /\ UNCHANGED <<jobs, queue, nUuid, inDir, deleted,
                   popped>>
    /\ UNCHANGED notGwVars

\* _process_job ends and the worker resumes: with a result, the layers and
\* summary.json written and checkpoint 3 reported, or with an exception
PipelineFinish(w) ==
    /\ wk[w].pc = "thread"
    /\ LET job_id == records[wk[w].job].job_id
       IN  \/ /\ outDir' = outDir \cup {job_id}
              /\ IF HasCallback(records[wk[w].job])
                 THEN /\ wk' = [wk EXCEPT ![w] =
                                  [EmitProgress(@, "upload")
                                     EXCEPT !.pc = "progress3",
                                            !.ran = "returned"]]
                      /\ UNCHANGED <<records, unfinished>>
                 ELSE Succeed(w)
           \/ /\ outDir' \in {outDir, outDir \cup {job_id}}
              /\ \E message \in ExcMessages : Fail(w, "raised", message)
    /\ UNCHANGED <<jobs, queue, nUuid, inDir, deleted,
                   popped>>
    /\ UNCHANGED notGwVars

\* the callback of checkpoint 3 is over
Progress3Done(w) ==
    /\ wk[w].pc = "progress3"
    /\ \E out \in ProgressOutcomes :
          IF out = "raised" THEN Fail(w, "returned", "msg") ELSE Succeed(w)
    /\ UNCHANGED <<jobs, queue, nUuid, inDir, outDir, deleted,
                   popped>>
    /\ UNCHANGED notGwVars

\* the backend branch is over: the payload follows from its outcome
UploadDone(w) ==
    /\ wk[w].pc = "upload"
    /\ \E res \in BackendOutcomes :
          wk' = [wk EXCEPT ![w].pc = "completion",
                           ![w].payload = BackendPayload(res),
                           ![w].sent = @ + 1]
    /\ UNCHANGED <<records, jobs, queue, unfinished, nUuid, inDir, outDir, deleted,
                   popped>>
    /\ UNCHANGED notGwVars

\* send_completion_callback is over: finally task_done(); an exception of
\* the callback then ends _worker_loop
CompletionDone(w) ==
    /\ wk[w].pc = "completion"
    /\ \E out \in CompletionOutcomes :
          wk' = [wk EXCEPT ![w].pc = IF out = "raised" THEN "dead" ELSE "idle"]
    /\ unfinished' = unfinished - 1
    /\ UNCHANGED <<records, jobs, queue, nUuid, inDir, outDir, deleted,
                   popped>>
    /\ UNCHANGED notGwVars

(***************************************************************************)
(* artorize_runner/protection_pipeline_gpu.py and protection_pipeline.py   *)
(***************************************************************************)
\* the keys of the stages _build_stage_sequence_gpu can append, in the
\* order of its if statements
StageOrder ==
    <<"fawkes", "photoguard", "mist", "nightshade", "invisible-watermark",
      "tree-ring", "stegano-embed">>

\* the stages switched by an enable_ flag of ProtectionWorkflowConfig
FlagStages == {"fawkes", "photoguard", "mist", "nightshade", "stegano-embed"}

\* watermark_strategy: one of the two strategies, or None
Strategies == {"invisible-watermark", "tree-ring", None}

\* every ProtectionWorkflowConfig, as far as stages go
Configs ==
    [enabled : SUBSET FlagStages, strategy : Strategies, c2pa : BOOLEAN]

\* ProtectionWorkflowConfig(): the configuration _process_job runs
DefaultConfig ==
    [enabled |-> {"fawkes", "photoguard", "mist", "nightshade"},
     strategy |-> "invisible-watermark", c2pa |-> TRUE]

\* whether the configuration has the stage with this key appended
StageEnabled(config, key) ==
    IF key \in FlagStages THEN key \in config.enabled
    ELSE config.strategy = key

RECURSIVE SelectStages(_, _, _)
SelectStages(config, order, i) ==
    IF i > Len(order) THEN <<>>
    ELSE (IF StageEnabled(config, order[i]) THEN <<order[i]>> ELSE <<>>)
         \o SelectStages(config, order, i + 1)

\* a plausible slip: the watermark appended before nightshade
BuildStageSequenceSwapped(config) ==
    SelectStages(config,
        <<"fawkes", "photoguard", "mist", "invisible-watermark", "tree-ring",
          "nightshade", "stegano-embed">>, 1)

\* _build_stage_sequence_gpu: the keys of the stages, in order
BuildStageSequenceGpu(config) == SelectStages(config, StageOrder, 1)

\* A layer record of the summary.  path says whether "path" names a file
\* (the final-comparison record has "path": None), prot is
\* is_protection_layer, sac has_sac_mask.
LayerRecord(stage, path, error, prot, sac) ==
    [stage |-> stage, path |-> path, error |-> error, prot |-> prot,
     sac |-> sac]

\* the sample values the model draws image samples from
Pixels == {3, 200}

\* What a sample written by _save_image reads back as: itself in a lossless
\* format (PNG), the nearest lower multiple of the quantisation step in a
\* lossy one (JPEG).
Reload(fmt, x) == IF fmt = "PNG" THEN x ELSE (x \div 8) * 8

\* The two definitions of _apply_poison_mask_if_enabled a call of
\* _apply_layers_batched can reach.  "src": the one in
\* protection_pipeline.py, whose parameters are (image, original, config,
\* target_dir, stage_name): the calls pass layer_dir=, force= and
\* generate_sac=, so binding the arguments raises TypeError.  "callers": one
\* that takes the keywords the calls pass, as app.py and the tests expect
\* of it (poison_mask_sac_path in its result), with the body as it stands:
\* the mask data, or None after an exception it caught.
Builds == {"src", "callers"}

\* what a call of _apply_poison_mask_if_enabled from _apply_layers_batched
\* comes to, given whether computing and writing the mask goes well
MaskCall(build, ok) ==
    IF build = "src" THEN "TypeError"
    ELSE IF ok THEN "data" ELSE "None"

(***************************************************************************)
(* SpecPipeline: one run of _apply_layers_batched on behalf of a job, and  *)
(* requests for its layers.                                                *)
(***************************************************************************)
NoResp == [key |-> None, known |-> FALSE, code |-> None]

NoMask == [hi |-> <<>>, lo |-> <<>>]

PipelineIdle ==
    /\ pPc = "off"
    /\ pBuild = None
    /\ pAvail = FALSE
    /\ pFmt = None
    /\ pCfg = DefaultConfig
    /\ pSeq = <<>>
    /\ pIdx = 0
    /\ pLayers = <<>>
    /\ pOrig = 0
    /\ pPrev = 0
    /\ pLast = 0
    /\ pCause = None
    /\ pFinal = "pending"
    /\ pMask = NoMask
    /\ pDisk = FALSE
    /\ pResp = NoResp

\* a job is running and _process_job is about to call _apply_layers_batched
PipelineInit ==
    /\ pPc = "open"
    /\ pBuild \in Builds
    /\ pAvail \in BOOLEAN
    /\ pFmt \in {"PNG", "JPEG"}
    /\ pCfg \in Configs
    /\ pSeq = <<>>
    /\ pIdx = 0
    /\ pLayers = <<>>
    /\ pOrig \in Pixels
    /\ pPrev = 0
    /\ pLast = 0
    /\ pCause = None
    /\ pFinal = "pending"
    /\ pMask = NoMask
    /\ pDisk = TRUE
    /\ pResp = NoResp

\* where the run stands once the loop index is i
AfterStage(seq, i) == IF i > Len(seq) THEN "c2pa" ELSE "stage"

\* the image is opened, the original saved and recorded, the stage
\* sequence built
PipelineOpen ==
    /\ pPc = "open"
    /\ pSeq' = BuildStageSequenceGpu(pCfg)
    /\ pIdx' = 1
    /\ pPc' = AfterStage(pSeq', 1)
    /\ pPrev' = pOrig
    /\ pLast' = Reload(pFmt, pOrig)
    /\ pLayers' = <<LayerRecord("original", TRUE, FALSE, FALSE, FALSE)>>
    /\ UNCHANGED <<pBuild, pAvail, pFmt, pCfg, pOrig, pCause, pFinal, pMask,
                   pDisk, pResp>>
    /\ UNCHANGED notPlVars

\* One pass of the loop over stage_sequence.  stage.apply is called with no
\* handler around it: its exception leaves _apply_layers_batched.  Otherwise
\* the layer is saved and _apply_poison_mask_if_enabled called.
PipelineStage ==
    /\ pPc = "stage"
    /\ pIdx <= Len(pSeq)
    /\ \/ /\ pPc' = "raised"
          /\ pCause' = "stage"
          /\ UNCHANGED <<pIdx, pLayers, pPrev, pLast>>
       \/ \E out \in Pixels :
             LET res == MaskCall(pBuild, pAvail)
                 file == Reload(pFmt, out)
             IN  IF res = "TypeError"
                 THEN /\ pPc' = "raised"
                      /\ pCause' = "keyword"
                      /\ UNCHANGED <<pIdx, pLayers, pPrev, pLast>>
                 ELSE /\ pLayers' = Append(pLayers,
                              LayerRecord(pSeq[pIdx], TRUE, FALSE, TRUE,
                                          res = "data"))
                      /\ pPrev' = out
                      /\ pLast' = file
                      /\ pIdx' = pIdx + 1
                      /\ pPc' = AfterStage(pSeq, pIdx + 1)
                      /\ UNCHANGED pCause
    /\ UNCHANGED <<pBuild, pAvail, pFmt, pCfg, pSeq, pOrig, pFinal, pMask,
                   pDisk, pResp>>
    /\ UNCHANGED notPlVars

\* The C2PA manifest, when enabled: the signed copy of the last layer is
\* written, read back as previous_saved and recorded; when embedding
\* raises, the source is read back instead (previous_saved stays when that
\* fails too) and the record carries the error.  pLast stays what the file
\* of the last layer of the stage loop reads back as.
PipelineC2pa ==
    /\ pPc = "c2pa"
    /\ pPc' = "final"
    /\ IF ~pCfg.c2pa
       THEN UNCHANGED <<pLayers, pPrev, pLast>>
       ELSE \/ /\ pLayers' = Append(pLayers,
                        LayerRecord("c2pa-manifest", TRUE, FALSE, FALSE, FALSE))
               /\ pPrev' = Reload(pFmt, pLast)
               /\ UNCHANGED pLast
            \/ /\ pLayers' = Append(pLayers,
                        LayerRecord("c2pa-manifest", TRUE, TRUE, FALSE, FALSE))
               /\ pPrev' \in {pLast, pPrev}
               /\ UNCHANGED pLast
    /\ UNCHANGED <<pBuild, pAvail, pFmt, pCfg, pSeq, pIdx, pOrig, pCause,
                   pFinal, pMask, pDisk, pResp>>
    /\ UNCHANGED notPlVars

\* The final comparison, when the mask processor was imported: the mask of
\* previous_saved against rgb_image, recorded when the call returns data.
PipelineFinal ==
    /\ pPc = "final"
    /\ IF ~pAvail
       THEN /\ pPc' = "returned"
            /\ pFinal' = "skipped"
            /\ UNCHANGED <<pLayers, pMask, pCause>>
       ELSE \E ok \in BOOLEAN :
               LET res == MaskCall(pBuild, ok)
               IN  /\ pFinal' = res
                   /\ CASE res = "TypeError" ->
                             /\ pPc' = "raised"
                             /\ pCause' = "keyword"
                             /\ UNCHANGED <<pLayers, pMask>>
                        [] res = "data" ->
                             /\ pPc' = "returned"
                             /\ pMask' = ComputeMask(<<pOrig>>, <<pPrev>>)
                             /\ pLayers' = Append(pLayers,
                                   LayerRecord("final-comparison", FALSE,
                                               FALSE, FALSE, TRUE))
                             /\ UNCHANGED pCause
                        [] OTHER ->
                             /\ pPc' = "returned"
                             /\ UNCHANGED <<pLayers, pMask, pCause>>
    /\ UNCHANGED <<pBuild, pAvail, pFmt, pCfg, pSeq, pIdx, pOrig, pPrev, pLast,
                   pDisk, pResp>>
    /\ UNCHANGED notPlVars

\* the status of the job the run belongs to: _run_job sets done when
\* _process_job returns and error when it raises
RunStatus(pc) ==
    CASE pc = "returned" -> STATUS_DONE
      [] pc = "raised" -> STATUS_ERROR
      [] OTHER -> STATUS_RUNNING

LayerKeys ==
    {"original", "c2pa-manifest", "final-comparison", "no-such-stage"}
        \cup {StageOrder[i] : i \in 1..Len(StageOrder)}

\* the requests drawn: every stage key for the job of the run, one for an
\* id the gateway does not hold
LayerRequests ==
    [known : {TRUE}, key : LayerKeys] \cup [known : {FALSE}, key : {"original"}]

RECURSIVE FindLayer(_, _, _)
\* the index of the first record of layers from i on whose stage is key,
\* 0 when there is none
FindLayer(layers, key, i) ==
    IF i > Len(layers) THEN 0
    ELSE IF layers[i].stage = key THEN i
    ELSE FindLayer(layers, key, i + 1)

\* get_layer: the status code of the answer; "TypeError" when Path() is
\* given the None of a record without a path, which the server answers
\* with 500
GetLayerResponse(known, status, layers, disk, key) ==
    IF ~known THEN "404"
    ELSE IF status # STATUS_DONE THEN "409"
    ELSE LET i == FindLayer(layers, key, 1)
         IN  IF i = 0 THEN "404"
             ELSE IF ~layers[i].path THEN "TypeError"
             ELSE IF ~disk THEN "404"
             ELSE "200"

\* GET /v1/jobs/{id}/layers/{stage}, for the job of the run (known) or an
\* id the gateway does not hold; the answer to the first request is kept
GetLayer ==
    /\ pResp = NoResp
    /\ \E req \in LayerRequests :
          pResp' = [key |-> req.key, known |-> req.known,
                    code |-> GetLayerResponse(req.known, RunStatus(pPc),
                                              pLayers, pDisk, req.key)]
    /\ UNCHANGED <<pPc, pBuild, pAvail, pFmt, pCfg, pSeq, pIdx, pLayers, pOrig,
                   pPrev, pLast, pCause, pFinal, pMask, pDisk>>
    /\ UNCHANGED notPlVars

\* _send_callback_on_completion, strategy 1: the summary has a
\* final-comparison record with has_sac_mask
HasFinalComparison(layers) ==
    \E i \in 1..Len(layers) :
        layers[i].stage = "final-comparison" /\ layers[i].sac

RECURSIVE LastProtectionLayer(_, _)
\* the record the reversed scan stops at, looking from i down: the last one
\* with is_protection_layer, a path and no error; 0 when there is none
LastProtectionLayer(layers, i) ==
    IF i = 0 THEN 0
    ELSE IF layers[i].prot /\ layers[i].path /\ ~layers[i].error THEN i
    ELSE LastProtectionLayer(layers, i - 1)

\* the files of a finished job are removed from the output directory
\* while its record stays
LoseFiles ==
    /\ pPc = "returned"
    /\ pDisk
    /\ pDisk' = FALSE
    /\ UNCHANGED <<pPc, pBuild, pAvail, pFmt, pCfg, pSeq, pIdx, pLayers, pOrig,
                   pPrev, pLast, pCause, pFinal, pMask, pResp>>
    /\ UNCHANGED notPlVars

(***************************************************************************)
(* artorize_gateway/sac_encoder.py                                         *)
(***************************************************************************)
\* b"SAC1"
SAC_MAGIC == <<83, 65, 67, 49>>

DTYPE_INT16 == 1

\* struct.pack('<I', n): four bytes, least significant first
LE32(n) ==
    <<n % 256, (n \div 256) % 256, (n \div 65536) % 256,
      (n \div 16777216) % 256>>

\* a plausible slip: the two bytes of a sample most significant first
LE16Swapped(v) == <<ToUint16(v) \div 256, ToUint16(v) % 256>>

\* one int16 of ndarray.tobytes(): two's complement, least significant
\* byte first
LE16(v) == <<ToUint16(v) % 256, ToUint16(v) \div 256>>

RECURSIVE ToBytes(_)
\* ndarray.tobytes(order='C') of a flat int16 array
ToBytes(arr) ==
    IF arr = <<>> THEN <<>> ELSE LE16(Head(arr)) \o ToBytes(Tail(arr))

\* build_sac: the asserts when width and height are both non-zero, then the
\* 24 header bytes and the two payloads
BuildSac(a, b, width, height) ==
    IF /\ width # 0
       /\ height # 0
       /\ (Len(a) # width * height \/ Len(b) # width * height)
    THEN "AssertionError"
    ELSE SAC_MAGIC \o <<0, DTYPE_INT16, 2, 0>>
            \o LE32(Len(a)) \o LE32(Len(b)) \o LE32(width) \o LE32(height)
            \o ToBytes(a) \o ToBytes(b)

\* A hi/lo plane pair of one pixel (height = width = 1): chans = 0 is a
\* two-dimensional array, chans = c > 0 an array of shape (1, 1, c);
\* px[c] holds the hi and the lo sample of channel c.
Channels(p) == IF p.chans = 0 THEN 1 ELSE p.chans

\* diff = (((hi << 8) | lo).astype(int32) - DIFF_OFFSET).astype(int16),
\* the computation of _decode_difference, per channel of the pixel
PlaneDiff(p) ==
    [c \in 1..Channels(p) |-> DecodeDifference(p.px[c].hi, p.px[c].lo)]

\* encode_mask_pair_from_arrays: the first two channels of a
\* multi-channel difference, a single channel twice
EncodeMaskPairFromArrays(p) ==
    LET diff == PlaneDiff(p)
    IN  IF p.chans > 1
        THEN BuildSac(<<diff[1]>>, <<diff[2]>>, 1, 1)
        ELSE BuildSac(diff, diff, 1, 1)

\* encode_mask_pair_from_images: channel 0 and channel 1 of a
\* three-dimensional difference, the flat difference otherwise
EncodeMaskPairFromImages(p) ==
    LET diff == PlaneDiff(p)
        a_flat == IF p.chans > 0 THEN <<diff[1]>> ELSE diff
        b_flat == IF p.chans > 1 THEN <<diff[2]>> ELSE diff
    IN  BuildSac(a_flat, b_flat, 1, 1)

(***************************************************************************)
(* SpecSac: one call of build_sac, or one of the mask-pair encoders        *)
(* applied to two plane pairs of the same shape.                           *)
(***************************************************************************)
MaxSacLen == 2

Int16Samples == {0 - 32768, 0 - 1, 0, 300}

Int16Arrays ==
    UNION {[1..n -> Int16Samples] : n \in 0..MaxSacLen}

\* hi/lo samples of the differences 0, 1 and -1
PlaneSamples ==
    {[hi |-> 128, lo |-> 0], [hi |-> 128, lo |-> 1], [hi |-> 127, lo |-> 255]}

Planes(chans) ==
    [chans : {chans},
     px : [1..(IF chans = 0 THEN 1 ELSE chans) -> PlaneSamples]]

NoPlanes == [chans |-> 0, px |-> <<>>]

\* numpy arrays of up to three channels; PIL images of mode L, LA and RGB
PlaneShapes(op) == IF op = "arrays" THEN 0..3 ELSE {0, 2, 3}

SacCalls ==
    [op : {"build_sac"}, a : Int16Arrays, b : Int16Arrays,
     width : 0..MaxSacLen, height : 0..MaxSacLen,
     x : {NoPlanes}, y : {NoPlanes}]
    \cup UNION {
        [op : {op}, a : {<<>>}, b : {<<>>}, width : {0}, height : {0},
         x : Planes(c), y : Planes(c)] :
            <<op, c>> \in {o \in {"arrays", "images"} \X (0..3) :
                               o[2] \in PlaneShapes(o[1])}}

NoCall ==
    [op |-> None, a |-> <<>>, b |-> <<>>, width |-> 0, height |-> 0,
     x |-> NoPlanes, y |-> NoPlanes]

SacIdle ==
    /\ sPc = "off"
    /\ sIn = NoCall
    /\ sOut = None

SacInit ==
    /\ sPc = "call"
    /\ sIn \in SacCalls
    /\ sOut = None

SacBuild ==
    /\ sPc = "call"
    /\ sIn.op = "build_sac"
    /\ sOut' = BuildSac(sIn.a, sIn.b, sIn.width, sIn.height)
    /\ sPc' = "done"
    /\ UNCHANGED sIn
    /\ UNCHANGED notSacVars

SacEncodeArrays ==
    /\ sPc = "call"
    /\ sIn.op = "arrays"
    /\ sOut' = <<EncodeMaskPairFromArrays(sIn.x), EncodeMaskPairFromArrays(sIn.y)>>
    /\ sPc' = "done"
    /\ UNCHANGED sIn
    /\ UNCHANGED notSacVars

SacEncodeImages ==
    /\ sPc = "call"
    /\ sIn.op = "images"
    /\ sOut' = <<EncodeMaskPairFromImages(sIn.x), EncodeMaskPairFromImages(sIn.y)>>
    /\ sPc' = "done"
    /\ UNCHANGED sIn
    /\ UNCHANGED notSacVars

(***************************************************************************)
(* The noise-drawing stages of protection_pipeline_gpu.py                  *)
(***************************************************************************)
\* _RNG = np.random.default_rng(seed=20240917), made once, at import
RNG_SEED == 20240917

\* the generators are modelled as a linear congruential generator of full
\* period over GenModulus states
GenModulus == 16

GenStates == 0..(GenModulus - 1)

NextGen(g) == (5 * g + 3) % GenModulus

\* the noise sample the generator gives in state g
Noise(g) == (g % 5) - 2

\* _apply_fawkes_like_gpu / _apply_fawkes_like_cpu on one sample:
\* clip(arr + noise) with noise drawn from the generator
ApplyFawkes(x, g) == Clip(x + Noise(g), 0, 255)

\* _apply_nightshade_like_gpu / _cpu on one sample, whose shifted copy is
\* itself: clip(0.82 * arr + 0.13 * shifted + noise), truncated
ApplyNightshade(x, g) == Clip((95 * x) \div 100 + Noise(g), 0, 255)

(***************************************************************************)
(* SpecRng: two runs of the pipeline on the same image in one process,     *)
(* in any interleaving of their stages.                                    *)
(***************************************************************************)
Runs == {1, 2}

NewRun(image) == [pc |-> "fawkes", img |-> image, out |-> <<>>]

RngIdle ==
    /\ rngEnv = [torch |-> FALSE, image |-> 0]
    /\ rngState = 0
    /\ rngRuns = <<>>

\* With torch the stages call torch.randn_like, which draws from torch's
\* default generator: nothing seeds it, so it starts anywhere.  Without
\* torch they draw from _RNG, seeded when the module was imported.
RngInit ==
    /\ rngEnv \in [torch : BOOLEAN, image : Pixels]
    /\ rngState \in (IF rngEnv.torch THEN GenStates
                     ELSE {RNG_SEED % GenModulus})
    /\ rngRuns = [r \in Runs |-> NewRun(rngEnv.image)]

RngFawkes ==
    \E r \in Runs :
        /\ rngRuns[r].pc = "fawkes"
        /\ LET y == ApplyFawkes(rngRuns[r].img, rngState)
           IN  rngRuns' = [rngRuns EXCEPT ![r] =
                   [pc |-> "nightshade", img |-> y,
                    out |-> Append(rngRuns[r].out, y)]]
        /\ rngState' = NextGen(rngState)
        /\ UNCHANGED rngEnv
        /\ UNCHANGED notRngVars

RngNightshade ==
    \E r \in Runs :
        /\ rngRuns[r].pc = "nightshade"
        /\ LET y == ApplyNightshade(rngRuns[r].img, rngState)
           IN  rngRuns' = [rngRuns EXCEPT ![r] =
                   [pc |-> "done", img |-> y,
                    out |-> Append(rngRuns[r].out, y)]]
        /\ rngState' = NextGen(rngState)
        /\ UNCHANGED rngEnv
        /\ UNCHANGED notRngVars

(***************************************************************************)
(* The invisible-watermark stage: _apply_invisible_watermark_vectorized    *)
(* (protection_pipeline_gpu.py) and _apply_invisible_watermark             *)
(* (protection_pipeline.py), on the flat uint8 raster.                     *)
(***************************************************************************)
\* bits of one byte as the reference loop appends them:
\* (byte >> bit) & 1 for bit = 0..7
ShiftBits(byte) == [j \in 1..8 |-> (byte \div (2 ^ (j - 1))) % 2]

\* bits of one byte as np.unpackbits gives them with its default
\* bitorder='big': the most significant bit first
UnpackBits(byte) == [j \in 1..8 |-> (byte \div (2 ^ (8 - j))) % 2]

RECURSIVE PayloadBits(_, _)
\* the bits of every byte of the payload, byte after byte, each byte in
\* the bit order of np.unpackbits ("big") or of the shift loop ("little")
PayloadBits(bitorder, payload) ==
    IF payload = <<>> THEN <<>>
    ELSE (IF bitorder = "big" THEN UnpackBits(Head(payload))
          ELSE ShiftBits(Head(payload)))
            \o PayloadBits(bitorder, Tail(payload))

\* the image is returned as it is when the bits outnumber the samples;
\* otherwise masked[:len(bits)] = (masked[:len(bits)] & 0xFE) | bits
EmbedBits(flat, bits) ==
    IF Len(bits) > Len(flat) THEN flat
    ELSE [i \in 1..Len(flat) |->
             IF i <= Len(bits) THEN (flat[i] \div 2) * 2 + bits[i]
             ELSE flat[i]]

ApplyInvisibleWatermarkVectorized(flat, payload) ==
    EmbedBits(flat, PayloadBits("big", payload))

ApplyInvisibleWatermark(flat, payload) ==
    EmbedBits(flat, PayloadBits("little", payload))

(***************************************************************************)
(* SpecWatermark: both implementations applied to one raster and text.     *)
(***************************************************************************)
\* longest watermark text drawn, in characters
MaxTextChars == 1

\* the UTF-8 encodings of "a", "~" and "e with acute accent"
WmChars == {<<97>>, <<126>>, <<195, 169>>}

RECURSIVE WmTexts(_)
WmTexts(n) ==
    IF n = 0 THEN {<<>>}
    ELSE WmTexts(n - 1) \cup {t \o c : t \in WmTexts(n - 1), c \in WmChars}

\* rasters of one sample up to one more than the longest text has bits, their
\* samples alternating between two uint8 values
WmRasters ==
    {[i \in 1..n |-> IF i % 2 = 1 THEN v[1] ELSE v[2]] :
        n \in 1..(16 * MaxTextChars + 1),
        v \in {0, 1, 254, 255} \X {0, 1, 254, 255}}

WmIdle ==
    /\ wmIn = [flat |-> <<>>, payload |-> <<>>]
    /\ wmOut = [vectorized |-> <<>>, reference |-> <<>>, ran |-> {}]

WmInit ==
    /\ wmIn \in [flat : WmRasters, payload : WmTexts(MaxTextChars)]
    /\ wmOut = [vectorized |-> <<>>, reference |-> <<>>, ran |-> {}]

WmVectorized ==
    /\ "vectorized" \notin wmOut.ran
    /\ wmOut' = [wmOut EXCEPT
                    !.vectorized =
                        ApplyInvisibleWatermarkVectorized(wmIn.flat, wmIn.payload),
                    !.ran = @ \cup {"vectorized"}]
    /\ UNCHANGED wmIn
    /\ UNCHANGED notWmVars

WmReference ==
    /\ "reference" \notin wmOut.ran
    /\ wmOut' = [wmOut EXCEPT
                    !.reference =
                        ApplyInvisibleWatermark(wmIn.flat, wmIn.payload),
                    !.ran = @ \cup {"reference"}]
    /\ UNCHANGED wmIn
    /\ UNCHANGED notWmVars

(***************************************************************************)
(* SpecMask: the codec applied to bounded sample vectors.                  *)
(***************************************************************************)
\* longest sample vector of the codec specification
MaxSamples == 2

\* sample values used for vectors longer than one sample
EdgeSamples == {0, 1, 127, 128, 254, SampleMax}

\* every value of one 8-bit sample
AllSamples == 0..SampleMax

SampleVectors(n) ==
    IF n = 1 THEN [1..1 -> AllSamples] ELSE [1..n -> EdgeSamples]

MaskIdle ==
    /\ mPc = "off"
    /\ mOrig = <<>>
    /\ mProc = <<>>
    /\ mHi = <<>>
    /\ mLo = <<>>
    /\ mRecon = <<>>

\* two images are loaded; their shapes may differ
MaskInit ==
    /\ mPc = "loaded"
    /\ \E n \in 1..MaxSamples, k \in 1..MaxSamples :
          /\ n = k \/ (n = 1 /\ k = MaxSamples) \/ (n = MaxSamples /\ k = 1)
          /\ mOrig \in (IF n = k THEN SampleVectors(n) ELSE [1..n -> {0, SampleMax}])
          /\ mProc \in (IF n = k THEN SampleVectors(k) ELSE [1..k -> {0, SampleMax}])
    /\ mHi = <<>>
    /\ mLo = <<>>
    /\ mRecon = <<>>

\* compute_mask(original, processed)
MaskCompute ==
    /\ mPc = "loaded"
    /\ IF Len(mOrig) # Len(mProc)
          \/ \E i \in 1..Len(mOrig) : ~EncodeInRange(ToInt16(mOrig[i] - mProc[i]))
       THEN /\ mPc' = "error"
            /\ UNCHANGED <<mHi, mLo>>
       ELSE /\ mPc' = "masked"
            /\ mHi' = ComputeMask(mOrig, mProc).hi
            /\ mLo' = ComputeMask(mOrig, mProc).lo
    /\ UNCHANGED <<mOrig, mProc, mRecon>>
    /\ UNCHANGED notMaskVars

\* reconstruct_preview(processed, mask.hi_image, mask.lo_image)
MaskReconstruct ==
    /\ mPc = "masked"
    /\ mRecon' = ReconstructPreview(mProc, mHi, mLo)
    /\ mPc' = "done"
    /\ UNCHANGED <<mOrig, mProc, mHi, mLo>>
    /\ UNCHANGED notMaskVars

MaskNext == MaskCompute \/ MaskReconstruct

(***************************************************************************)
(* The specifications.                                                     *)
(***************************************************************************)
InitMask ==
    /\ MaskInit /\ UploadIdle /\ CallbackIdle /\ GatewayIdle /\ PipelineIdle
    /\ SacIdle /\ RngIdle /\ WmIdle

NextMask == MaskNext

SpecMask == InitMask /\ [][NextMask]_vars

InitUpload ==
    /\ UploadInit /\ MaskIdle /\ CallbackIdle /\ GatewayIdle /\ PipelineIdle
    /\ SacIdle /\ RngIdle /\ WmIdle

NextUpload == UploadNext

SpecUpload == InitUpload /\ [][NextUpload]_vars

InitCallback ==
    /\ CallbackInit /\ MaskIdle /\ UploadIdle /\ GatewayIdle /\ PipelineIdle
    /\ SacIdle /\ RngIdle /\ WmIdle

NextCallback == CallbackNext

SpecCallback == InitCallback /\ [][NextCallback]_vars

Init ==
    /\ GatewayInit /\ MaskIdle /\ UploadIdle /\ CallbackIdle /\ PipelineIdle
    /\ SacIdle /\ RngIdle /\ WmIdle

Next ==
    \/ SubmitJob
    \/ ProcessArtwork
    \/ DeleteJob
    \/ \E w \in Workers : Dequeue(w)
    \/ \E w \in Workers : Progress1Done(w)
    \/ \E w \in Workers : Progress2Done(w)
    \/ \E w \in Workers : PipelineStart(w)
    \/ \E w \in Workers : PipelineFinish(w)
    \/ \E w \in Workers : Progress3Done(w)
    \/ \E w \in Workers : UploadDone(w)
    \/ \E w \in Workers : CompletionDone(w)

Spec == Init /\ [][Next]_vars

\* one step of the task of worker w, from an await to the next
WorkerStep(w) ==
    \/ Dequeue(w)
    \/ Progress1Done(w)
    \/ Progress2Done(w)
    \/ PipelineStart(w)
    \/ PipelineFinish(w)
    \/ Progress3Done(w)
    \/ UploadDone(w)
    \/ CompletionDone(w)

\* The event loop resumes every task whose await is over, and the pipeline
\* runs and the callback attempts come to an end: a worker that can take a
\* step takes one.  The requests of the clients are under no such duty.
SpecFair == Spec /\ \A w \in Workers : WF_vars(WorkerStep(w))

InitPipeline ==
    /\ PipelineInit /\ MaskIdle /\ UploadIdle /\ CallbackIdle /\ GatewayIdle
    /\ SacIdle /\ RngIdle /\ WmIdle

NextPipeline ==
    \/ PipelineOpen
    \/ PipelineStage
    \/ PipelineC2pa
    \/ PipelineFinal
    \/ GetLayer
    \/ LoseFiles

SpecPipeline == InitPipeline /\ [][NextPipeline]_vars

InitSac ==
    /\ SacInit /\ MaskIdle /\ UploadIdle /\ CallbackIdle /\ GatewayIdle
    /\ PipelineIdle /\ RngIdle /\ WmIdle

NextSac ==
    \/ SacBuild
    \/ SacEncodeArrays
    \/ SacEncodeImages

SpecSac == InitSac /\ [][NextSac]_vars

InitRng ==
    /\ RngInit /\ MaskIdle /\ UploadIdle /\ CallbackIdle /\ GatewayIdle
    /\ PipelineIdle /\ SacIdle /\ WmIdle

NextRng ==
    \/ RngFawkes
    \/ RngNightshade

SpecRng == InitRng /\ [][NextRng]_vars

InitWatermark ==
    /\ WmInit /\ MaskIdle /\ UploadIdle /\ CallbackIdle /\ GatewayIdle
    /\ PipelineIdle /\ SacIdle /\ RngIdle

NextWatermark ==
    \/ WmVectorized
    \/ WmReference

SpecWatermark == InitWatermark /\ [][NextWatermark]_vars

(***************************************************************************)
(* C3: for images of identical shape with samples in 0..255, the planes    *)
(* that compute_mask stores satisfy ((hi << 8) | lo) - 32768 = original -  *)
(* processed in every sample, decode back to that difference, and          *)
(* reconstruct_preview returns the original exactly.                       *)
(***************************************************************************)
C3_RoundTrip ==
    /\ mPc \in {"masked", "done"} =>
          /\ Len(mHi) = Len(mOrig) /\ Len(mLo) = Len(mOrig)
          /\ \A i \in 1..Len(mOrig) :
                /\ mHi[i] \in 0..255 /\ mLo[i] \in 0..255
                /\ (mHi[i] * 256 + mLo[i]) - 32768 = mOrig[i] - mProc[i]
                /\ DecodeDifference(mHi[i], mLo[i]) = mOrig[i] - mProc[i]
    /\ mPc = "done" => mRecon = mOrig
    /\ (mPc = "loaded" /\ Len(mOrig) = Len(mProc)) => ENABLED MaskCompute
    /\ mPc = "error" => Len(mOrig) # Len(mProc)

\* a reconstruction of two samples, one raised and one lowered by processing
C3_Witness ==
    /\ mPc = "done"
    /\ Len(mOrig) = 2
    /\ mOrig[1] = 0 /\ mProc[1] = 255
    /\ mOrig[2] = 255 /\ mProc[2] = 0
    /\ mRecon = mOrig

(***************************************************************************)
(* Reading the log of an upload.                                           *)
(***************************************************************************)
IsPost(e) == e.ev = "post"

IsSleep(e) == e.ev = "sleep"

NumPosts(log) == Cardinality({i \in 1..Len(log) : IsPost(log[i])})

NumSleeps(log) == Cardinality({i \in 1..Len(log) : IsSleep(log[i])})

UploadOver == uPc \in {"returned", "raised", "payload"}

Transient == {"429", "timeout", "network"}

AllTransient(log) ==
    \A i \in 1..Len(log) : IsPost(log[i]) => log[i].resp \in Transient

LastResp(log) == log[Len(log)].resp

\* the exception a transient failure of the last attempt ends in
ExhaustedError(r) ==
    CASE r = "timeout" -> "BackendTimeoutError"
      [] r = "network" -> "BackendUploadError"
      [] r = "429" -> "BackendRateLimitError"

\* retried with exponential backoff: requests and sleeps alternate, the
\* request of attempt k (from 0) is followed by a sleep of retry_delay * 2^k
\* exactly when it failed transiently and was not the last attempt; when every
\* attempt was transient there are max_retries requests and the exception is
\* the one of the last failure
TransientRetried ==
    /\ NumPosts(uLog) <= uMax
    /\ \A i \in 1..Len(uLog) :
          IF i % 2 = 1
          THEN /\ IsPost(uLog[i])
               /\ (i < Len(uLog) \/ uPc = "sleep") =>
                     /\ uLog[i].resp \in Transient
                     /\ (i - 1) \div 2 < uMax - 1
          ELSE /\ IsSleep(uLog[i])
               /\ uLog[i].wait = RetryDelay * (2 ^ ((i - 2) \div 2))
    /\ (UploadOver /\ uLog # <<>> /\ AllTransient(uLog)) =>
          /\ NumPosts(uLog) = uMax
          /\ NumSleeps(uLog) = uMax - 1
          /\ IsPost(uLog[Len(uLog)])
          /\ uResult = Raise(ExhaustedError(LastResp(uLog)))
    /\ uPc = "sleep" => uAttempt = NumPosts(uLog) - 1
    /\ uPc = "post" => uAttempt = NumPosts(uLog)

Is201(r) == r \in {"201id", "201noid", "201bad"}

(***************************************************************************)
(* C7: when the backend answers 401 to POST /artworks no further request   *)
(* and no backoff sleep follows; answered to the first request, the upload *)
(* made exactly one request; it fails with BackendAuthError and the        *)
(* completion payload is failed with error.code BACKEND_AUTH_FAILED.       *)
(***************************************************************************)
C7_Auth401Terminal ==
    /\ \A i \in 1..Len(uLog) :
          uLog[i] = Post("401") =>
             /\ i = Len(uLog)
             /\ UploadOver
             /\ uResult = Raise("BackendAuthError")
             /\ uPc = "payload" => uPayload = Payload("failed", "BACKEND_AUTH_FAILED")
    /\ (uLog # <<>> /\ uLog[1] = Post("401")) =>
          NumPosts(uLog) = 1 /\ NumSleeps(uLog) = 0

\* the backend answered 401 to the first request and the payload is built
C7_Witness ==
    /\ uPc = "payload"
    /\ uMax = 3
    /\ uLog = <<Post("401")>>
    /\ uPayload = Payload("failed", "BACKEND_AUTH_FAILED")

(***************************************************************************)
(* C8 as stated: transient failures (timeout, network error, 429) are      *)
(* retried with exponential backoff, and a 201 on any attempt ends the     *)
(* loop and returns the response body without further requests.            *)
(***************************************************************************)
C8_Original ==
    /\ TransientRetried
    /\ \A i \in 1..Len(uLog) :
          (IsPost(uLog[i]) /\ Is201(uLog[i].resp)) =>
             /\ i = Len(uLog)
             /\ UploadOver
             /\ uResult.kind = "return"

(***************************************************************************)
(* C8 as amended: transient failures are retried with exponential backoff  *)
(* as stated; a 201 on any attempt ends the loop without further requests, *)
(* returning the response body when it parses as JSON and raising          *)
(* BackendUploadError when it does not.                                    *)
(***************************************************************************)
C8_Backoff ==
    /\ TransientRetried
    /\ \A i \in 1..Len(uLog) :
          (IsPost(uLog[i]) /\ Is201(uLog[i].resp)) =>
             /\ i = Len(uLog)
             /\ UploadOver
             /\ uLog[i].resp = "201id" => uResult = Return("id")
             /\ uLog[i].resp = "201noid" => uResult = Return("noid")
             /\ uLog[i].resp = "201bad" => uResult = Raise("BackendUploadError")

\* three attempts, all transient: two sleeps of 2 s and 4 s, then the raise
C8_Witness ==
    /\ uPc = "raised"
    /\ uMax = 3
    /\ uLog = <<Post("429"), Sleep(2), Post("network"), Sleep(4), Post("timeout")>>
    /\ uResult = Raise("BackendTimeoutError")

(***************************************************************************)
(* C9: a backend response that is not 201, 401 or 429 (500 for one) is not *)
(* retried: no request and no sleep follows it, one request is made when   *)
(* it answers the first, BackendUploadError is raised and the completion   *)
(* payload reports error.code BACKEND_UPLOAD_FAILED.                       *)
(***************************************************************************)
C9_OtherStatusNotRetried ==
    /\ \A i \in 1..Len(uLog) :
          uLog[i] = Post("500") =>
             /\ i = Len(uLog)
             /\ UploadOver
             /\ uResult = Raise("BackendUploadError")
             /\ uPc = "payload" => uPayload = Payload("failed", "BACKEND_UPLOAD_FAILED")
    /\ (uLog # <<>> /\ uLog[1] = Post("500")) =>
          NumPosts(uLog) = 1 /\ NumSleeps(uLog) = 0

\* the backend answered 500 to the first request and the payload is built
C9_Witness ==
    /\ uPc = "payload"
    /\ uMax = 3
    /\ uLog = <<Post("500")>>
    /\ uResult = Raise("BackendUploadError")
    /\ uPayload = Payload("failed", "BACKEND_UPLOAD_FAILED")

(***************************************************************************)
(* C10: on the callback transport HTTP 401 is terminal: after a 401        *)
(* response to a completion or progress callback POST the client makes no  *)
(* further attempt for that payload.                                       *)
(***************************************************************************)
C10_Callback401Terminal ==
    \A i \in 1..Len(cLog) : cLog[i] = "401" => i = Len(cLog)

(***************************************************************************)
(* Reading the gateway's state.                                            *)
(***************************************************************************)
Forward(s, t) ==
    \/ s = t
    \/ s = STATUS_QUEUED /\ t = STATUS_RUNNING
    \/ s = STATUS_RUNNING /\ t \in {STATUS_DONE, STATUS_ERROR}

IsPrefix(s, t) ==
    /\ Len(s) <= Len(t)
    /\ \A i \in 1..Len(s) : s[i] = t[i]

\* the workers that hold a job with a callback
CallbackWorkers ==
    {w \in Workers : wk[w].job # 0 /\ HasCallback(records[wk[w].job])}

(***************************************************************************)
(* C1: the statuses of every job record only move forward along queued,    *)
(* running, then done or error: no step takes a record backward (done to   *)
(* running, running to queued) or out of done or error.                    *)
(***************************************************************************)
C1_StatusMonotonic ==
    [][\A r \in 1..Len(records) :
          Forward(records[r].status, records'[r].status)]_vars

(***************************************************************************)
(* C2: no submit operation replaces the record stored under an id that     *)
(* already has a record: the record an id maps to only changes when the id *)
(* had none or is left with none.                                          *)
(***************************************************************************)
C2_OneRecordPerId ==
    [][\A job_id \in JobIds :
          jobs[job_id] # 0 => jobs'[job_id] \in {jobs[job_id], 0}]_vars

(***************************************************************************)
(* C4: a job record whose status is done has a non-null result, and a job  *)
(* record whose status is error has a non-null error string.               *)
(***************************************************************************)
C4_DoneHasResultErrorHasError ==
    \A r \in 1..Len(records) :
        /\ records[r].status = STATUS_DONE => records[r].result # None
        /\ records[r].status = STATUS_ERROR => records[r].error # None

\* one record is done with its result, another is in error after an
\* exception whose message is empty
C4_Witness ==
    \E r1, r2 \in 1..Len(records) :
        /\ records[r1].status = STATUS_DONE /\ records[r1].result = "result"
        /\ records[r2].status = STATUS_ERROR /\ records[r2].error = ""

(***************************************************************************)
(* C5: once DELETE has answered 200 for a job id (and the id has not been  *)
(* submitted again), the record is gone and neither the input nor the      *)
(* output directory of that id exists, whatever the workers do afterwards. *)
(***************************************************************************)
C5_DeletedStaysDeleted ==
    \A job_id \in deleted :
        /\ jobs[job_id] = 0
        /\ job_id \notin inDir
        /\ job_id \notin outDir

(***************************************************************************)
(* C6 as stated, for the passes that reached the pipeline of a job that    *)
(* is still stored: when the completion callback of a job with a callback  *)
(* is sent, exactly three progress callbacks, with step_number 1, 2, 3 in  *)
(* that order, precede it.                                                 *)
(***************************************************************************)
C6_Original ==
    \A w \in CallbackWorkers :
        /\ jobs[records[wk[w].job].job_id] = wk[w].job
        /\ wk[w].sent >= 1
        /\ wk[w].ran # "no"
        => wk[w].prog = <<1, 2, 3>>

(***************************************************************************)
(* C6 as amended: in each pass of a worker over a job with a callback the  *)
(* progress callbacks carry step_number 1, 2, 3 in that order, each at     *)
(* most once: step 1 once the record has left queued, step 2 before the    *)
(* pipeline is invoked, step 3 exactly when the pipeline has returned a    *)
(* result (never when it raised or was not invoked).  The completion       *)
(* callback is sent at most once in the pass, after steps 1 and 2, and     *)
(* after step 3 when the pipeline returned.                                *)
(***************************************************************************)
C6_ProgressOrder ==
    \A w \in CallbackWorkers :
        LET wr == wk[w]
        IN  /\ IsPrefix(wr.prog, <<1, 2, 3>>)
            /\ Len(wr.prog) >= 1
            /\ records[wr.job].status # STATUS_QUEUED
            /\ wr.ran # "no" => Len(wr.prog) >= 2
            /\ wr.ran = "returned" <=> Len(wr.prog) = 3
            /\ wr.sent <= 1
            /\ wr.sent = 1 => Len(wr.prog) >= 2

\* the completion callback of a successful upload is on its way after the
\* three progress callbacks
C6_Witness ==
    \E w \in CallbackWorkers :
        /\ wk[w].pc = "completion"
        /\ wk[w].sent = 1
        /\ wk[w].ran = "returned"
        /\ wk[w].prog = <<1, 2, 3>>
        /\ wk[w].payload = Payload("completed", None)

(***************************************************************************)
(* C11: a 5xx response to a completion callback POST is not retried:       *)
(* no further POST of that payload follows it.                             *)
(***************************************************************************)
C11_Completion5xxNotRetried ==
    cKind = "completion" =>
        \A i \in 1..Len(cLog) : cLog[i] = "500" => i = Len(cLog)

(***************************************************************************)
(* C12: a completion or progress callback call makes at most N =           *)
(* retry_attempts POSTs; it returns True at the first 200 without a        *)
(* further POST; after a transport timeout or a network error it goes on   *)
(* to the next attempt while one is left; and it returns False once N      *)
(* attempts have failed.                                                   *)
(***************************************************************************)
C12_CallbackRetries ==
    /\ Len(cLog) <= cN
    /\ \A i \in 1..Len(cLog) :
          cLog[i] = "200" => i = Len(cLog) /\ cPc = "true"
    /\ cPc = "true" => cLog # <<>> /\ cLog[Len(cLog)] = "200"
    /\ Len(cLog) = cN /\ (cLog = <<>> \/ cLog[Len(cLog)] # "200") =>
          cPc \in {"call", "false"}
    /\ cLog # <<>> /\ cLog[Len(cLog)] \in {"timeout", "network"} =>
          cPc = IF Len(cLog) < cN THEN "post" ELSE "false"

(***************************************************************************)
(* Claims about the protection pipeline and the layer endpoint             *)
(***************************************************************************)
LayerStages(layers) == [i \in 1..Len(layers) |-> layers[i].stage]

\* the answer the layer endpoint owes a request made in the current state
LayerAnswerOwed(known, key) ==
    IF ~known THEN "404"
    ELSE IF RunStatus(pPc) # STATUS_DONE THEN "409"
    ELSE IF \A i \in 1..Len(pLayers) : pLayers[i].stage # key THEN "404"
    ELSE IF \E i \in 1..Len(pLayers) :
                pLayers[i].stage = key /\ (~pLayers[i].path \/ ~pDisk)
         THEN "404"
    ELSE "200"

C14_StageFailureRecorded ==
    pCause = "stage" =>
        /\ RunStatus(pPc) # STATUS_ERROR
        /\ \E i \in 1..Len(pLayers) : pLayers[i].prot /\ pLayers[i].error

SummaryOrder ==
    <<"original", "fawkes", "photoguard", "mist", "nightshade",
      "invisible-watermark", "tree-ring", "stegano-embed", "c2pa-manifest",
      "final-comparison">>

SummaryRank(key) ==
    CHOOSE r \in 1..Len(SummaryOrder) : SummaryOrder[r] = key

\* whether the configuration asks for the layer key
Wanted(config, key) ==
    CASE key = "original" -> TRUE
      [] key \in {"invisible-watermark", "tree-ring"} -> config.strategy = key
      [] key = "c2pa-manifest" -> config.c2pa
      [] OTHER -> key \in config.enabled

IsBlob(out) == out # "AssertionError" /\ out # None

\* struct.unpack('<I', ...) of the four bytes after offset off
U32(blob, off) ==
    blob[off + 1] + 256 * blob[off + 2] + 65536 * blob[off + 3]
        + 16777216 * blob[off + 4]

\* np.frombuffer(..., dtype=int16) of n samples after offset off
I16Array(blob, off, n) ==
    [i \in 1..n |->
        ToInt16(blob[off + 2 * i - 1] + 256 * blob[off + 2 * i])]

\* struct.unpack('<4sBBBBIIII', blob[:24])
ParseHeader(blob) ==
    [magic |-> SubSeq(blob, 1, 4), flags |-> blob[5], dtype |-> blob[6],
     arrays_count |-> blob[7], reserved |-> blob[8],
     length_a |-> U32(blob, 8), length_b |-> U32(blob, 12),
     width |-> U32(blob, 16), height |-> U32(blob, 20)]

\* the blob has a 24-byte header with magic SAC1, dtype 1, arrays_count 2
\* and SINGLE_ARRAY unset, and its payload holds a and then b
HeaderAndPayload(blob, a, b) ==
    /\ Len(blob) >= 24
    /\ LET h == ParseHeader(blob)
       IN  /\ h.magic = <<83, 65, 67, 49>>
           /\ h.dtype = 1
           /\ h.arrays_count = 2
           /\ h.flags % 2 = 0
           /\ h.length_a = Len(a)
           /\ h.length_b = Len(b)
           /\ Len(blob) - 24 >= 2 * (h.length_a + h.length_b)
           /\ I16Array(blob, 24, h.length_a) = a
           /\ I16Array(blob, 24 + 2 * h.length_a, h.length_b) = b

\* C18: the SAC blob of a hi/lo plane pair carries every per-sample
\* difference ((hi << 8) | lo) - 32768 of the planes: two plane pairs of
\* one shape that give the same blob have the same differences.
C18_SacCarriesEveryDifference ==
    (/\ sPc = "done"
     /\ sIn.op \in {"arrays", "images"}
     /\ IsBlob(sOut[1])
     /\ sOut[1] = sOut[2]) =>
        PlaneDiff(sIn.x) = PlaneDiff(sIn.y)

\* C19 as stated: every blob build_sac returns parses back to the header
\* above, followed by exactly (1 + (arrays_count == 2)) * length_a * 2
\* payload bytes that hold a and then b.
C19_Original ==
    (sPc = "done" /\ sIn.op = "build_sac" /\ IsBlob(sOut)) =>
        /\ HeaderAndPayload(sOut, sIn.a, sIn.b)
        /\ Len(sOut) - 24
              = (1 + (IF ParseHeader(sOut).arrays_count = 2 THEN 1 ELSE 0))
                    * ParseHeader(sOut).length_a * 2

\* C19, amended: every blob build_sac returns parses back to the header
\* above, followed by exactly (length_a + length_b) * 2 payload bytes that
\* hold a and then b; that is (1 + (arrays_count == 2)) * length_a * 2
\* bytes when a and b have the same number of elements.
C19_HeaderAndPayload ==
    (sPc = "done" /\ sIn.op = "build_sac" /\ IsBlob(sOut)) =>
        /\ HeaderAndPayload(sOut, sIn.a, sIn.b)
        /\ Len(sOut) - 24
              = (ParseHeader(sOut).length_a + ParseHeader(sOut).length_b) * 2
        /\ Len(sIn.a) = Len(sIn.b) =>
              Len(sOut) - 24 = 2 * ParseHeader(sOut).length_a * 2

C19_Witness ==
    /\ sPc = "done"
    /\ sIn.op = "build_sac"
    /\ IsBlob(sOut)
    /\ Len(sIn.a) = 2
    /\ Len(sIn.b) = 1
    /\ sIn.a[1] = 300

(***************************************************************************)
(* Claims about determinism                                                *)
(***************************************************************************)
\* C20: two runs of the pipeline on the same image and configuration in
\* one process, one after the other or interleaved, produce the same layer
\* outputs.
C20_RunsAgree ==
    (\A r \in Runs : rngRuns[r].pc = "done") =>
        \A r1, r2 \in Runs : rngRuns[r1].out = rngRuns[r2].out

(***************************************************************************)
(* Claims about the invisible watermark                                    *)
(***************************************************************************)
\* the bit the watermark owes sample i of the stream: bit (i - 1) mod 8,
\* counted from the least significant one, of byte (i - 1) div 8
OwedBit(payload, i) ==
    (payload[((i - 1) \div 8) + 1] \div (2 ^ ((i - 1) % 8))) % 2

\* C21: the vectorized watermark writes each byte of the text, least
\* significant bit first, into the least significant bits of consecutive
\* samples and changes nothing else (nothing at all when the text has more
\* bits than the image samples), and its output equals the reference
\* loop's.
C21_WatermarkLsbFirst ==
    "vectorized" \in wmOut.ran =>
        LET out == wmOut.vectorized
            n == 8 * Len(wmIn.payload)
        IN  /\ Len(out) = Len(wmIn.flat)
            /\ n > Len(wmIn.flat) => out = wmIn.flat
            /\ n <= Len(wmIn.flat) =>
                  \A i \in 1..Len(out) :
                      /\ out[i] \div 2 = wmIn.flat[i] \div 2
                      /\ i <= n => out[i] % 2 = OwedBit(wmIn.payload, i)
                      /\ i > n => out[i] = wmIn.flat[i]
            /\ "reference" \in wmOut.ran => out = wmOut.reference

(***************************************************************************)
(* The claims about the workers of the gateway                             *)
(***************************************************************************)
\* a worker in the middle of a pass of _worker_loop over a record
Busy(w) == wk[w].pc \notin {"idle", "dead"}

\* C22: a record is processed by one worker only: no two workers are, at the
\* same moment, in a pass over the same record (and so over the same job id)
C22_SingleWriter ==
    \A w1, w2 \in Workers :
        (w1 # w2 /\ Busy(w1) /\ Busy(w2)) => wk[w1].job # wk[w2].job

\* the passes of _worker_loop under way
BusyWorkers == {w \in Workers : Busy(w)}

\* C23: every pass over a record ends with task_done() and the worker back
\* on queue.get(): no worker has left _worker_loop, and the queue's count of
\* unfinished items is the ids still queued plus the passes under way
C23_EveryPassEnds ==
    /\ \A w \in Workers : wk[w].pc # "dead"
    /\ unfinished = Len(queue) + Cardinality(BusyWorkers)

\* the records whose status is running
RunningRecords ==
    {r \in 1..Len(records) : records[r].status = STATUS_RUNNING}

\* the workers that are not waiting on the queue
EngagedWorkers == {w \in Workers : wk[w].pc # "idle"}

\* C24: a worker is in one pass at a time and a record is running only while
\* a worker is in a pass over it, so the records in status running are never
\* more than the workers that are not waiting, and these never more than the
\* pool
C24_RunningWithinPool ==
    /\ \A r \in RunningRecords : \E w \in EngagedWorkers : wk[w].job = r
    /\ Cardinality(RunningRecords) <= Cardinality(EngagedWorkers)
    /\ Cardinality(EngagedWorkers) <= Cardinality(Workers)

\* both workers of the pool are in a pass, each over a running record of
\* its own
C24_Witness ==
    \E w1, w2 \in Workers :
        /\ w1 # w2 /\ Busy(w1) /\ Busy(w2)
        /\ wk[w1].job # wk[w2].job
        /\ {wk[w1].job, wk[w2].job} \subseteq RunningRecords

\* the ids enqueued so far; records holds one record per enqueue, in the
\* order of the enqueues
EnqueuedIds == {records[r].job_id : r \in 1..Len(records)}

\* the place of an id's first enqueue
FirstEnqueue(id) ==
    CHOOSE r \in 1..Len(records) :
        /\ records[r].job_id = id
        /\ \A q \in 1..(r - 1) : records[q].job_id # id

\* a record of the id has been made running by a worker
IdStarted(id) ==
    \E r \in 1..Len(records) :
        records[r].job_id = id /\ records[r].status # STATUS_QUEUED

\* delete_job has removed a record of the id
IdDeleted(id) == \E r \in popped : records[r].job_id = id

\* C25 as stated: when A is enqueued before B and B has become running, A
\* has become running
C25_Original ==
    \A A, B \in EnqueuedIds :
        (FirstEnqueue(A) < FirstEnqueue(B) /\ IdStarted(B)) => IdStarted(A)

\* C25: dispatch is FIFO: when A is enqueued before B and B has become
\* running, A has become running, or A was deleted on the way
C25_FifoUnlessDeleted ==
    \A A, B \in EnqueuedIds :
        (FirstEnqueue(A) < FirstEnqueue(B) /\ IdStarted(B))
            => (IdStarted(A) \/ IdDeleted(A))

\* two ids were enqueued one after the other, both are running, and no
\* record was deleted
C25_Witness ==
    /\ Len(records) = 2
    /\ records[1].job_id # records[2].job_id
    /\ records[1].status = STATUS_RUNNING
    /\ records[2].status = STATUS_RUNNING
    /\ popped = {}

\* the record the id at the head of the queue was enqueued for: ids leave
\* the queue in the order of the enqueues, one per record
HeadRecord == Len(records) - Len(queue) + 1

\* C26: when a worker dequeues an id whose record was deleted while the id
\* waited, it only marks the item done: no record changes, no worker starts
\* a pass (no pipeline, no callback) and every worker stays as it was
C26_DeletedWhileQueuedIsDropped ==
    [][(queue # <<>> /\ queue' = Tail(queue) /\ HeadRecord \in popped)
          => (wk' = wk /\ records' = records
                /\ unfinished' = unfinished - 1)]_vars

\* C27: the code of the completion payload follows the outcome of the pass:
\* a pipeline exception gives failed with PROCESSING_FAILED whatever its
\* message, and UNKNOWN_ERROR is built only after the pipeline has returned
C27_PayloadCodeFollowsOutcome ==
    \A w \in Workers :
        wk[w].pc = "completion" =>
            /\ wk[w].ran = "raised"
                  => wk[w].payload = Payload("failed", "PROCESSING_FAILED")
            /\ wk[w].payload.code = "UNKNOWN_ERROR" => wk[w].ran = "returned"

\* C28: every job that was submitted and is not deleted comes to done or
\* error: each record, once stored, is in the end deleted or at a terminal
\* status
C28_EveryJobEnds ==
    \A r \in 1..MaxSubmits :
        (Len(records) >= r)
            ~> (/\ Len(records) >= r
                /\ \/ r \in popped
                   \/ records[r].status \in {STATUS_DONE, STATUS_ERROR})

C30_GiveUpIsStored ==
    (cKind = "completion" /\ cN >= 1 /\ cPc = "false") => cStored = 1

=============================================================================
